---- MODULE Spec2Model ----
(***************************************************************************)
(* Model of GoogleDriveManager (src/main.py) and of the report page        *)
(* (src/frontend.py): the client's operations over a remote file store,    *)
(* the local file system and the persisted credential file.                *)
(*                                                                         *)
(* Text (file names, paths, extensions, labels) is a sequence of one-      *)
(* character strings, so that lower(), endswith(), basename() and string    *)
(* concatenation are computed as Python computes them.  MIME types and     *)
(* identifiers are only ever compared for equality; they are TLA+ strings. *)
(***************************************************************************)
EXTENDS Integers, Sequences, FiniteSets, TLC

\* ------------------------------------------------------------------ bounds
\* identifiers the remote service can hand out
MaxId == 9
\* records this client may add to the store in one run
MaxNew == 2
\* chunks a native-binary download may take
MaxChunks == 2
\* records the service puts in the one page of files().list the client reads
PageSize == 2
\* distinct access tokens the authorization server hands out
MaxTok == 2

\* ------------------------------------------------------------------- text
None == "None"
\* a name argument left out (None) and the empty string are both falsy, and the
\* code only ever tests `if not nom`: both are the empty text
NoName == <<>>

UpperCase == <<"A","B","C","D","E","F","G","H","I","J","K","L","M",
               "N","O","P","Q","R","S","T","U","V","W","X","Y","Z">>
LowerCase == <<"a","b","c","d","e","f","g","h","i","j","k","l","m",
               "n","o","p","q","r","s","t","u","v","w","x","y","z">>

\* str.lower() on one character
LowerChar(c) ==
    IF \E i \in 1..26 : UpperCase[i] = c
    THEN LowerCase[CHOOSE i \in 1..26 : UpperCase[i] = c]
    ELSE c

\* str.lower()
Lower(s) == [i \in 1..Len(s) |-> LowerChar(s[i])]

\* str.endswith(suffix)
EndsWith(s, suffix) ==
    /\ Len(s) >= Len(suffix)
    /\ SubSeq(s, Len(s) - Len(suffix) + 1, Len(s)) = suffix

\* index of the last "/" of a path, 0 when there is none
LastSlash(p) ==
    IF \E i \in 1..Len(p) : p[i] = "/"
    THEN CHOOSE i \in 1..Len(p) : p[i] = "/" /\ \A j \in (i+1)..Len(p) : p[j] # "/"
    ELSE 0

\* os.path.basename
Basename(p) == SubSeq(p, LastSlash(p) + 1, Len(p))

\* the elements of a sequence
Range(s) == {s[i] : i \in 1..Len(s)}

\* the smaller of two numbers
Min(a, b) == IF a <= b THEN a ELSE b

\* ------------------------------------------------------------- MIME tables
FOLDER == "application/vnd.google-apps.folder"
GDOC   == "application/vnd.google-apps.document"
GSHEET == "application/vnd.google-apps.spreadsheet"
GSLIDE == "application/vnd.google-apps.presentation"
GDRAW  == "application/vnd.google-apps.drawing"
\* a file uploaded as it is keeps a MIME type of its own, none of the service's
\* document types; the client never looks at which
BINARY == "application/octet-stream"

M_DOCX == "application/vnd.openxmlformats-officedocument.wordprocessingml.document"
M_XLSX == "application/vnd.openxmlformats-officedocument.spreadsheetml.sheet"
M_PPTX == "application/vnd.openxmlformats-officedocument.presentationml.presentation"
M_PNG  == "image/png"
M_PDF  == "application/pdf"
M_TXT  == "text/plain"
M_CSV  == "text/csv"
M_RTF  == "application/rtf"
M_ODT  == "application/vnd.oasis.opendocument.text"
M_ODS  == "application/vnd.oasis.opendocument.spreadsheet"
M_ODP  == "application/vnd.oasis.opendocument.presentation"
M_JPG  == "image/jpeg"
M_SVG  == "image/svg+xml"

\* telecharger_fichier: the default export type of each editable-document kind
google_docs_types ==
    [m \in {GDOC, GSHEET, GSLIDE, GDRAW} |->
        CASE m = GDOC   -> M_DOCX
          [] m = GSHEET -> M_XLSX
          [] m = GSLIDE -> M_PPTX
          [] m = GDRAW  -> M_PNG]

\* telecharger_fichier: the extension of each export type it knows
extensions ==
    [m \in {M_DOCX, M_XLSX, M_PPTX, M_PNG, M_PDF, M_TXT, M_CSV} |->
        CASE m = M_DOCX -> <<".","d","o","c","x">>
          [] m = M_XLSX -> <<".","x","l","s","x">>
          [] m = M_PPTX -> <<".","p","p","t","x">>
          [] m = M_PNG  -> <<".","p","n","g">>
          [] m = M_PDF  -> <<".","p","d","f">>
          [] m = M_TXT  -> <<".","t","x","t">>
          [] m = M_CSV  -> <<".","c","s","v">>]

\* obtenir_formats_export: per editable-document kind, the export types offered,
\* each with its label (the extension, then an optional " (Product)")
formats_disponibles ==
    [m \in {GDOC, GSHEET, GSLIDE, GDRAW} |->
        CASE m = GDOC ->
               { [mime |-> M_DOCX, label |-> <<".","d","o","c","x"," ","(","W","o","r","d",")">>],
                 [mime |-> M_PDF,  label |-> <<".","p","d","f">>],
                 [mime |-> M_TXT,  label |-> <<".","t","x","t">>],
                 [mime |-> M_RTF,  label |-> <<".","r","t","f">>],
                 [mime |-> M_ODT,  label |-> <<".","o","d","t">>] }
          [] m = GSHEET ->
               { [mime |-> M_XLSX, label |-> <<".","x","l","s","x"," ","(","E","x","c","e","l",")">>],
                 [mime |-> M_PDF,  label |-> <<".","p","d","f">>],
                 [mime |-> M_CSV,  label |-> <<".","c","s","v">>],
                 [mime |-> M_ODS,  label |-> <<".","o","d","s">>] }
          [] m = GSLIDE ->
               { [mime |-> M_PPTX, label |-> <<".","p","p","t","x"," ","(","P","o","w","e","r","P","o","i","n","t",")">>],
                 [mime |-> M_PDF,  label |-> <<".","p","d","f">>],
                 [mime |-> M_JPG,  label |-> <<".","j","p","g">>],
                 [mime |-> M_PNG,  label |-> <<".","p","n","g">>],
                 [mime |-> M_ODP,  label |-> <<".","o","d","p">>] }
          [] m = GDRAW ->
               { [mime |-> M_PNG,  label |-> <<".","p","n","g">>],
                 [mime |-> M_JPG,  label |-> <<".","j","p","g">>],
                 [mime |-> M_SVG,  label |-> <<".","s","v","g">>],
                 [mime |-> M_PDF,  label |-> <<".","p","d","f">>] }]

\* ------------------------------------------------------------------ state
VARIABLES
    store,      \* the remote store: the records, in the order the service lists them
    fs,         \* the local file system: path -> bytes, for the paths that exist
    tokenFile,  \* token.pickle: "absent", "corrupt" or the pickled credentials
    service,    \* self.service: None, or the session built from some credentials
    phase,      \* "new" before __init__, "ready" for a call, "returned" from one,
                \* "crashed" once an exception escaped
    last,       \* the last call on the client: operation, arguments, outcome
    uploads,    \* what uploader_fichier returned so far: identifier, name, folder
    made        \* records added and local files written so far (bounded)

vars == <<store, fs, tokenFile, service, phase, last, uploads, made>>

\* -------------------------------------------------------- the remote store
\* a record of the store; parent is None for a record in the root
Rec(id, name, mimeType, parent, trashed, content) ==
    [id |-> id, name |-> name, mimeType |-> mimeType, parent |-> parent,
     trashed |-> trashed, content |-> content]

IdTable == <<"A", "B", "C", "D", "E", "F", "G", "H", "I", "J", "K", "L">>
Ids == {IdTable[i] : i \in 1..MaxId}
IdsOf(st) == {r.id : r \in Range(st)}
RecordOf(st, id) == CHOOSE r \in Range(st) : r.id = id

\* the fields the client asks for, of one record
Item(r) == [id |-> r.id, name |-> r.name, mimeType |-> r.mimeType]
Items(s) == [i \in 1..Len(s) |-> Item(s[i])]

\* the client reads one page of a files().list answer and never follows
\* nextPageToken
FirstPage(s) == SubSeq(s, 1, Min(Len(s), PageSize))

\* the name is pasted between single quotes as it is: the service reads the
\* literal up to the first quote that no backslash escapes, and when the name
\* holds one, what follows it is no query and the request is refused
NameLiteralOK(nom) ==
    \A i \in 1..Len(nom) : nom[i] = "'" => (i > 1 /\ nom[i-1] = "\\")

\* q = "name='<nom>' and mimeType='application/vnd.google-apps.folder' and trashed=false"
FolderQuery(st, nom) ==
    FirstPage(SelectSeq(st, LAMBDA r : r.name = nom /\ r.mimeType = FOLDER /\ ~r.trashed))

\* (mutant) the query without its `trashed=false` part
ChildrenQuery_WithTrashed(st, dossier_id) ==
    FirstPage(SelectSeq(st, LAMBDA r : r.parent = dossier_id))

\* q = "'<dossier_id>' in parents and trashed=false"
ChildrenQuery(st, dossier_id) ==
    FirstPage(SelectSeq(st, LAMBDA r : r.parent = dossier_id /\ ~r.trashed))

\* q = "trashed=false"
AllQuery(st) == FirstPage(SelectSeq(st, LAMBDA r : ~r.trashed))

\* files().create is refused when the parent named is no folder of the store
ParentOK(st, parent) ==
    parent = None \/ \E r \in Range(st) : r.id = parent /\ r.mimeType = FOLDER

\* files().create(body, media_body): the service stores the record under the
\* identifier it assigns
Created(st, newId, name, mimeType, parent, content) ==
    Append(st, Rec(newId, name, mimeType, parent, FALSE, content))

\* files().export_media: the document converted to the export type
Convert(content, mimeType) == <<mimeType>> \o content

\* ------------------------------------------------------ outcomes of a call
\* a call that returned `result`
Returned(result, events, failed) ==
    [result |-> result, events |-> events, failed |-> failed, raised |-> FALSE]

\* a call left by an exception: a remote call failed
Raised(events) ==
    [result |-> None, events |-> events, failed |-> TRUE, raised |-> TRUE]

\* (mutant) no handler: the exception leaves the operation
Catch_Propagates(o, indicator) == o

\* try: ... except Exception as e: print(...); return <indicator>
Catch(o, indicator) ==
    IF o.raised THEN [o EXCEPT !.raised = FALSE, !.result = indicator] ELSE o

IsRemote(e) == e \in {"files.list", "files.get", "files.create", "export_media", "next_chunk"}
\* the remote calls a call issued, in order
Calls(o) == SelectSeq(o.events, IsRemote)

\* ---------------------------------------------------- GoogleDriveManager
\* `fail` names the remote call of the operation that fails for a reason of the
\* service or the network ("none": no such failure)

\* trouver_dossier_par_nom(nom_dossier)
trouver_dossier_par_nom(st, nom_dossier, fail) ==
    IF fail = "lookup" \/ ~NameLiteralOK(nom_dossier)
    THEN Catch(Raised(<<"files.list">>), None)
    ELSE LET items == FolderQuery(st, nom_dossier)
         IN  Returned(IF items # <<>> THEN items[1].id ELSE None, <<"files.list">>, FALSE)

\* `if nom_dossier and not dossier_id`
NeedsLookup(dossier_id, nom_dossier) == nom_dossier # NoName /\ dossier_id = None

\* the folder a call is about: the identifier given, or else the one the name
\* resolves to
Destination(st, dossier_id, nom_dossier, fail) ==
    IF NeedsLookup(dossier_id, nom_dossier)
    THEN trouver_dossier_par_nom(st, nom_dossier, fail).result
    ELSE dossier_id

\* lister_fichiers(dossier_id, nom_dossier)
lister_fichiers(st, dossier_id, nom_dossier, fail) ==
    LET lookup == NeedsLookup(dossier_id, nom_dossier)
        found == trouver_dossier_par_nom(st, nom_dossier, fail)
        before == IF lookup THEN found.events ELSE <<>>
        resolved == IF lookup THEN found.result ELSE dossier_id
    IN  IF lookup /\ found.raised
        THEN Catch(Raised(before), <<>>)
        ELSE IF lookup /\ resolved = None
        THEN Returned(<<>>, before, found.failed)
        ELSE IF fail = "list"
        THEN Catch(Raised(before \o <<"files.list">>), <<>>)
        ELSE Returned(Items(IF resolved # None THEN ChildrenQuery(st, resolved)
                                               ELSE AllQuery(st)),
                      before \o <<"files.list">>, FALSE)

\* (mutant) the folder name is resolved before the local path is looked at
uploader_fichier_LookupFirst(st, files, chemin, dossier_id, nom_dossier, fail, newId) ==
    LET lookup == NeedsLookup(dossier_id, nom_dossier)
        found == trouver_dossier_par_nom(st, nom_dossier, fail)
        before == IF lookup THEN found.events ELSE <<>>
        resolved == IF lookup THEN found.result ELSE dossier_id
    IN  IF lookup /\ resolved = None
        THEN [out |-> Returned(None, before, found.failed), store |-> st]
        ELSE IF chemin \notin DOMAIN files
        THEN [out |-> Returned(None, before, FALSE), store |-> st]
        ELSE IF fail = "create" \/ ~ParentOK(st, resolved)
        THEN [out |-> Catch(Raised(before \o <<"files.create">>), None), store |-> st]
        ELSE [out |-> Returned(newId, before \o <<"files.create">>, FALSE),
              store |-> Created(st, newId, Basename(chemin), BINARY, resolved, files[chemin])]

\* (mutant) the destination folder is left out of the metadata
uploader_fichier_NoParent(st, files, chemin, dossier_id, nom_dossier, fail, newId) ==
    IF chemin \notin DOMAIN files
    THEN [out |-> Returned(None, <<>>, FALSE), store |-> st]
    ELSE
    LET lookup == NeedsLookup(dossier_id, nom_dossier)
        found == trouver_dossier_par_nom(st, nom_dossier, fail)
        before == IF lookup THEN found.events ELSE <<>>
        resolved == IF lookup THEN found.result ELSE dossier_id
    IN  IF lookup /\ resolved = None
        THEN [out |-> Returned(None, before, found.failed), store |-> st]
        ELSE IF fail = "create" \/ ~ParentOK(st, resolved)
        THEN [out |-> Catch(Raised(before \o <<"files.create">>), None), store |-> st]
        ELSE [out |-> Returned(newId, before \o <<"files.create">>, FALSE),
              store |-> Created(st, newId, Basename(chemin), BINARY, None, files[chemin])]

\* uploader_fichier(chemin_fichier_local, dossier_id, nom_dossier): the outcome,
\* and the store after it
uploader_fichier(st, files, chemin, dossier_id, nom_dossier, fail, newId) ==
    IF chemin \notin DOMAIN files
    THEN [out |-> Returned(None, <<>>, FALSE), store |-> st]
    ELSE
    LET lookup == NeedsLookup(dossier_id, nom_dossier)
        found == trouver_dossier_par_nom(st, nom_dossier, fail)
        before == IF lookup THEN found.events ELSE <<>>
        resolved == IF lookup THEN found.result ELSE dossier_id
    IN  IF lookup /\ found.raised
        THEN [out |-> Catch(Raised(before), None), store |-> st]
        ELSE IF lookup /\ resolved = None
        THEN [out |-> Returned(None, before, found.failed), store |-> st]
        ELSE IF fail = "create" \/ ~ParentOK(st, resolved)
        THEN [out |-> Catch(Raised(before \o <<"files.create">>), None), store |-> st]
        ELSE [out |-> Returned(newId, before \o <<"files.create">>, FALSE),
              store |-> Created(st, newId, Basename(chemin), BINARY, resolved, files[chemin])]

\* creer_dossier(nom_dossier, dossier_parent_id)
creer_dossier(st, nom_dossier, dossier_parent_id, fail, newId) ==
    IF fail = "create" \/ ~ParentOK(st, dossier_parent_id)
    THEN [out |-> Catch(Raised(<<"files.create">>), None), store |-> st]
    ELSE [out |-> Returned(newId, <<"files.create">>, FALSE),
          store |-> Created(st, newId, nom_dossier, FOLDER, dossier_parent_id, <<>>)]

\* obtenir_formats_export(fichier_id): the mapping is a set of (mime, label)
obtenir_formats_export(st, fichier_id, fail) ==
    IF fail = "get" \/ fichier_id \notin IdsOf(st)
    THEN Catch(Raised(<<"files.get">>), {})
    ELSE LET mime_type == RecordOf(st, fichier_id).mimeType
         IN  Returned(IF mime_type \in DOMAIN formats_disponibles
                      THEN formats_disponibles[mime_type] ELSE {},
                      <<"files.get">>, FALSE)

\* telecharger_fichier: the name the export branch writes to
ExportName(nom_fichier_local, export_mime_type) ==
    IF /\ export_mime_type \in DOMAIN extensions
       /\ ~EndsWith(Lower(nom_fichier_local), Lower(extensions[export_mime_type]))
    THEN nom_fichier_local \o extensions[export_mime_type]
    ELSE nom_fichier_local

\* telecharger_fichier: `format_export or google_docs_types[mime_type]`
ExportType(mime_type, format_export) ==
    IF format_export # None THEN format_export ELSE google_docs_types[mime_type]

\* telecharger_fichier, the editable-document branch: export, then write
ExportBranch(files, nom, export_mime_type, content, fail) ==
    IF fail = "export"
    THEN [out |-> Catch(Raised(<<"files.get", "export_media">>), FALSE), fs |-> files]
    ELSE [out |-> Returned(TRUE, <<"files.get", "export_media", "open", "write", "close">>, FALSE),
          fs |-> (nom :> Convert(content, export_mime_type)) @@ files]

\* n times the event e
Repeat(e, n) == [i \in 1..n |-> e]

\* (mutant) the local file is opened before the chunks are fetched
BinaryBranch_OpenFirst(files, nom, mime_type, content, fail, chunks, failChunk) ==
    IF mime_type = FOLDER
    THEN [out |-> Catch(Raised(<<"files.get", "open", "next_chunk">>), FALSE),
          fs |-> (nom :> <<>>) @@ files]
    ELSE IF fail = "chunk"
    THEN [out |-> Catch(Raised(<<"files.get", "open">>
                               \o Repeat("next_chunk", Min(failChunk, chunks))), FALSE),
          fs |-> (nom :> <<>>) @@ files]
    ELSE [out |-> Returned(TRUE, <<"files.get", "open">> \o Repeat("next_chunk", chunks)
                                 \o <<"write", "close">>, FALSE),
          fs |-> (nom :> content) @@ files]

\* (mutant) the buffer is read without `fh.seek(0)`: nothing is written
BinaryBranch_NoSeek(files, nom, mime_type, content, fail, chunks, failChunk) ==
    IF mime_type = FOLDER
    THEN [out |-> Catch(Raised(<<"files.get", "next_chunk">>), FALSE), fs |-> files]
    ELSE IF fail = "chunk"
    THEN [out |-> Catch(Raised(<<"files.get">> \o Repeat("next_chunk", Min(failChunk, chunks))), FALSE),
          fs |-> files]
    ELSE [out |-> Returned(TRUE, <<"files.get">> \o Repeat("next_chunk", chunks)
                                 \o <<"open", "write", "close">>, FALSE),
          fs |-> (nom :> <<>>) @@ files]

\* telecharger_fichier, the native-binary branch: every chunk into a buffer,
\* then write.  The service has no media for a folder.
BinaryBranch(files, nom, mime_type, content, fail, chunks, failChunk) ==
    IF mime_type = FOLDER
    THEN [out |-> Catch(Raised(<<"files.get", "next_chunk">>), FALSE), fs |-> files]
    ELSE IF fail = "chunk"
    THEN [out |-> Catch(Raised(<<"files.get">> \o Repeat("next_chunk", Min(failChunk, chunks))), FALSE),
          fs |-> files]
    ELSE [out |-> Returned(TRUE, <<"files.get">> \o Repeat("next_chunk", chunks)
                                 \o <<"open", "write", "close">>, FALSE),
          fs |-> (nom :> content) @@ files]

\* telecharger_fichier(fichier_id, nom_fichier_local, format_export): the
\* outcome, the local file system after it and the name written to
telecharger_fichier(st, files, fichier_id, nom_fichier_local, format_export, fail, chunks, failChunk) ==
    IF fail = "get" \/ fichier_id \notin IdsOf(st)
    THEN [out |-> Catch(Raised(<<"files.get">>), FALSE), fs |-> files, written |-> NoName]
    ELSE
    LET file_metadata == RecordOf(st, fichier_id)
        mime_type == file_metadata.mimeType
        nom == IF nom_fichier_local = NoName THEN file_metadata.name ELSE nom_fichier_local
    IN  IF mime_type \in DOMAIN google_docs_types
        THEN LET export_mime_type == ExportType(mime_type, format_export)
                 b == ExportBranch(files, ExportName(nom, export_mime_type),
                                   export_mime_type, file_metadata.content, fail)
             IN  [out |-> b.out, fs |-> b.fs,
                  written |-> IF b.out.result = TRUE THEN ExportName(nom, export_mime_type) ELSE NoName]
        ELSE LET b == BinaryBranch(files, nom, mime_type, file_metadata.content,
                                   fail, chunks, failChunk)
             IN  [out |-> b.out, fs |-> b.fs,
                  written |-> IF b.out.result = TRUE THEN nom ELSE NoName]

\* ----------------------------------------------------------- authenticate
\* credentials: token 0 is "no access token"
Creds(token, expired, refresh_token) ==
    [token |-> token, expired |-> expired, refresh_token |-> refresh_token]
NoCreds == Creds(0, FALSE, FALSE)

\* token.pickle: absent, unreadable, or the credentials pickled into it
TokenFile(kind, creds) == [kind |-> kind, creds |-> creds]
AbsentFile == TokenFile("absent", NoCreds)
TokenFiles ==
    {AbsentFile, TokenFile("corrupt", NoCreds)}
    \cup {TokenFile("creds", Creds(t, e, r)) : t \in 0..MaxTok, e \in BOOLEAN, r \in BOOLEAN}

\* self.service
NoService == [built |-> FALSE, creds |-> NoCreds]
Build(creds) == [built |-> TRUE, creds |-> creds]

\* creds.valid: an access token that has not expired
Valid(creds) == creds.token # 0 /\ ~creds.expired

\* `creds and creds.expired and creds.refresh_token`
Refreshable(loaded, creds) == loaded /\ creds.expired /\ creds.refresh_token

\* (mutant) the credentials of the flow or the refresh are not saved
authenticate_NoDump(file, flowOK, refreshOK, fresh) ==
    LET exists == file.kind # "absent"
        read == IF exists THEN <<"load">> ELSE <<>>
        creds == file.creds
    IN  IF file.kind = "corrupt"
        THEN [raised |-> TRUE, events |-> read, tokenFile |-> file, service |-> NoService]
        ELSE IF exists /\ Valid(creds)
        THEN [raised |-> FALSE, events |-> read \o <<"build">>,
              tokenFile |-> file, service |-> Build(creds)]
        ELSE IF Refreshable(exists, creds)
        THEN IF refreshOK
             THEN [raised |-> FALSE, events |-> read \o <<"refresh", "build">>,
                   tokenFile |-> file,
                   service |-> Build(Creds(fresh.token, FALSE, TRUE))]
             ELSE [raised |-> TRUE, events |-> read \o <<"refresh">>,
                   tokenFile |-> file, service |-> NoService]
        ELSE IF flowOK
             THEN [raised |-> FALSE, events |-> read \o <<"flow", "build">>,
                   tokenFile |-> file, service |-> Build(fresh)]
             ELSE [raised |-> TRUE, events |-> read \o <<"flow">>,
                   tokenFile |-> file, service |-> NoService]

\* authenticate(): the events in order, the credential file and the session
\* handle after it, and whether an exception left it.  flowOK, refreshOK: whether
\* the interactive flow and the refresh succeed; fresh: the credentials they give
authenticate(file, flowOK, refreshOK, fresh) ==
    LET exists == file.kind # "absent"
        read == IF exists THEN <<"load">> ELSE <<>>
        creds == file.creds
    IN  IF file.kind = "corrupt"
        THEN [raised |-> TRUE, events |-> read, tokenFile |-> file, service |-> NoService]
        ELSE IF exists /\ Valid(creds)
        THEN [raised |-> FALSE, events |-> read \o <<"build">>,
              tokenFile |-> file, service |-> Build(creds)]
        ELSE IF Refreshable(exists, creds)
        THEN IF refreshOK
             THEN [raised |-> FALSE, events |-> read \o <<"refresh", "dump", "build">>,
                   tokenFile |-> TokenFile("creds", Creds(fresh.token, FALSE, TRUE)),
                   service |-> Build(Creds(fresh.token, FALSE, TRUE))]
             ELSE [raised |-> TRUE, events |-> read \o <<"refresh">>,
                   tokenFile |-> file, service |-> NoService]
        ELSE IF flowOK
             THEN [raised |-> FALSE, events |-> read \o <<"flow", "dump", "build">>,
                   tokenFile |-> TokenFile("creds", fresh), service |-> Build(fresh)]
             ELSE [raised |-> TRUE, events |-> read \o <<"flow">>,
                   tokenFile |-> file, service |-> NoService]

\* ------------------------------------------------------------ input sets
d_name == <<"d">>
q_name == <<"q">>
la_name == <<"l", "'", "a">>
FolderNames == {NoName, d_name, q_name, la_name}
NewFolderNames == {d_name, la_name}

r_path == <<"x", "/", "r">>
missing_path == <<"m">>
Paths == {r_path, missing_path}

\* folder arguments of the calls that add records: none, a folder of the
\* store, an identifier the service never assigned
FolderArgs == {None, "B", "Z"}

LocalNames == {NoName, <<"k">>, <<"k", ".", "P", "D", "F">>}
ExportFormats == {None, M_PDF, M_RTF}

\* the store a run starts from, in the order the service lists it
InitialStore ==
    << Rec("G", d_name, BINARY, "A", FALSE, <<"b1">>),
       Rec("C", d_name, FOLDER, None, TRUE, <<>>),
       Rec("B", d_name, FOLDER, None, FALSE, <<>>),
       Rec("A", d_name, FOLDER, None, FALSE, <<>>),
       Rec("D", <<"g">>, GDOC, "B", FALSE, <<"t1">>),
       Rec("E", <<"r">>, BINARY, "B", TRUE, <<"b0">>),
       Rec("F", la_name, FOLDER, None, FALSE, <<>>) >>

InitialFiles == (r_path :> <<"b2">>)
ReadyCreds == Creds(1, FALSE, TRUE)

\* a call on the client, as the caller sees it
Call(op, args, o) ==
    [op |-> op, args |-> args, result |-> o.result, events |-> o.events,
     failed |-> o.failed, raised |-> o.raised]
NoCall == [op |-> "none", args |-> <<>>, result |-> None, events |-> <<>>,
           failed |-> FALSE, raised |-> FALSE]

\* an exception that no handler catches ends the script; otherwise the caller
\* holds the value returned
After(o) == IF o.raised THEN "crashed" ELSE "returned"

\* -------------------------------------------------------------- actions
Init ==
    /\ store = InitialStore
    /\ fs = InitialFiles
    /\ tokenFile = TokenFile("creds", ReadyCreds)
    /\ service = Build(ReadyCreds)
    /\ phase = "ready"
    /\ last = NoCall
    /\ uploads = {}
    /\ made = 0

Find ==
    /\ phase = "ready"
    /\ \E nom \in FolderNames \ {NoName}, fail \in {"none", "lookup"} :
         LET o == trouver_dossier_par_nom(store, nom, fail)
         IN  /\ last' = Call("find", [nom_dossier |-> nom, fail |-> fail], o)
             /\ phase' = After(o)
    /\ UNCHANGED <<store, fs, tokenFile, service, uploads, made>>

List ==
    /\ phase = "ready"
    /\ \E dossier_id \in Ids \cup {None}, nom \in FolderNames,
          fail \in {"none", "lookup", "list"} :
         LET o == lister_fichiers(store, dossier_id, nom, fail)
         IN  /\ last' = Call("list", [dossier_id |-> dossier_id, nom_dossier |-> nom,
                                      fail |-> fail], o)
             /\ phase' = After(o)
    /\ UNCHANGED <<store, fs, tokenFile, service, uploads, made>>

Upload ==
    /\ phase = "ready"
    /\ made < MaxNew
    /\ \E chemin \in Paths, dossier_id \in FolderArgs, nom \in FolderNames,
          fail \in {"none", "lookup", "create"}, newId \in Ids \ IdsOf(store) :
         LET u == uploader_fichier(store, fs, chemin, dossier_id, nom, fail, newId)
             ok == u.store # store
         IN  /\ last' = Call("upload", [chemin |-> chemin, dossier_id |-> dossier_id,
                                        nom_dossier |-> nom, fail |-> fail], u.out)
             /\ store' = u.store
             /\ uploads' = IF ok
                           THEN uploads \cup {[id |-> u.out.result, name |-> Basename(chemin),
                                               folder |-> Destination(store, dossier_id, nom, fail)]}
                           ELSE uploads
             /\ made' = IF ok THEN made + 1 ELSE made
             /\ phase' = After(u.out)
    /\ UNCHANGED <<fs, tokenFile, service>>

CreateFolder ==
    /\ phase = "ready"
    /\ made < MaxNew
    /\ \E nom \in NewFolderNames, parent \in FolderArgs,
          fail \in {"none", "create"}, newId \in Ids \ IdsOf(store) :
         LET c == creer_dossier(store, nom, parent, fail, newId)
         IN  /\ last' = Call("create_folder", [nom_dossier |-> nom,
                                               dossier_parent_id |-> parent, fail |-> fail], c.out)
             /\ store' = c.store
             /\ made' = IF c.store # store THEN made + 1 ELSE made
             /\ phase' = After(c.out)
    /\ UNCHANGED <<fs, tokenFile, service, uploads>>

Formats ==
    /\ phase = "ready"
    /\ \E fichier_id \in Ids, fail \in {"none", "get"} :
         LET o == obtenir_formats_export(store, fichier_id, fail)
         IN  /\ last' = Call("formats", [fichier_id |-> fichier_id, fail |-> fail], o)
             /\ phase' = After(o)
    /\ UNCHANGED <<store, fs, tokenFile, service, uploads, made>>

Download ==
    /\ phase = "ready"
    /\ made < MaxNew
    /\ \E fichier_id \in Ids, nom \in LocalNames, format_export \in ExportFormats,
          fail \in {"none", "get", "export", "chunk"},
          chunks \in 1..MaxChunks, failChunk \in 1..MaxChunks :
         LET t == telecharger_fichier(store, fs, fichier_id, nom, format_export,
                                      fail, chunks, failChunk)
         IN  /\ failChunk <= chunks
             /\ last' = Call("download", [fichier_id |-> fichier_id, nom_fichier_local |-> nom,
                                          format_export |-> format_export, fail |-> fail,
                                          written |-> t.written], t.out)
             /\ fs' = t.fs
             /\ made' = IF t.out.result = TRUE THEN made + 1 ELSE made
             /\ phase' = After(t.out)
    /\ UNCHANGED <<store, tokenFile, service, uploads>>

\* the caller goes on to its next statement
Continue ==
    /\ phase = "returned"
    /\ phase' = "ready"
    /\ last' = NoCall
    /\ UNCHANGED <<store, fs, tokenFile, service, uploads, made>>

Next == Find \/ List \/ Upload \/ CreateFolder \/ Formats \/ Download \/ Continue

Spec == Init /\ [][Next]_vars

\* ------------------------------------------------- construction (process start)
\* GoogleDriveManager(): __init__ calls authenticate
Authenticate ==
    /\ phase = "new"
    /\ \E flowOK \in BOOLEAN, refreshOK \in BOOLEAN,
          token \in 1..MaxTok, refresh_token \in BOOLEAN :
         LET a == authenticate(tokenFile, flowOK, refreshOK, Creds(token, FALSE, refresh_token))
         IN  /\ last' = [op |-> "authenticate", args |-> [file |-> tokenFile],
                         result |-> None, events |-> a.events,
                         failed |-> a.raised, raised |-> a.raised]
             /\ tokenFile' = a.tokenFile
             /\ service' = a.service
             /\ phase' = After(a)
    /\ UNCHANGED <<store, fs, uploads, made>>

\* the script ends; the next run starts without a session
Exit ==
    /\ phase \in {"ready", "crashed"}
    /\ phase' = "new"
    /\ service' = NoService
    /\ last' = NoCall
    /\ UNCHANGED <<store, fs, tokenFile, uploads, made>>

\* between two runs the access token reaches its expiry
Expire ==
    /\ phase = "new"
    /\ tokenFile.kind = "creds"
    /\ ~tokenFile.creds.expired
    /\ tokenFile' = [tokenFile EXCEPT !.creds.expired = TRUE]
    /\ UNCHANGED <<store, fs, service, phase, last, uploads, made>>

InitAuth ==
    /\ store = InitialStore
    /\ fs = InitialFiles
    /\ tokenFile \in TokenFiles
    /\ service = NoService
    /\ phase = "new"
    /\ last = NoCall
    /\ uploads = {}
    /\ made = 0

NextAuth == Authenticate \/ List \/ Continue \/ Exit \/ Expire

SpecAuth == InitAuth /\ [][NextAuth]_vars

\* ------------------------------------------------------------------ reports
\* a serializable value: a number, a text, or a mapping given as the sequence
\* key, value, key, value, ...
IntV(n) == [t |-> "int", n |-> n, s |-> <<>>, kids |-> <<>>]
StrV(s) == [t |-> "str", n |-> 0, s |-> s, kids |-> <<>>]
MapV(kids) == [t |-> "map", n |-> 0, s |-> <<>>, kids |-> kids]

DigitChars == <<"0", "1", "2", "3", "4", "5", "6", "7", "8", "9">>
IsDigit(c) == \E i \in 1..10 : DigitChars[i] = c
DigitValue(c) == (CHOOSE i \in 1..10 : DigitChars[i] = c) - 1

\* a number in decimal
RECURSIVE Digits(_)
Digits(n) == IF n < 10 THEN <<DigitChars[n + 1]>>
             ELSE Digits(n \div 10) \o <<DigitChars[(n % 10) + 1]>>

\* the serialization: a tag, a decimal number closed by ";", then the text of
\* that length or that many serialized children
RECURSIVE Pickle(_)
RECURSIVE PickleAll(_)
PickleAll(vs) == IF vs = <<>> THEN <<>> ELSE Pickle(Head(vs)) \o PickleAll(Tail(vs))
Pickle(v) ==
    CASE v.t = "int" -> <<"I">> \o Digits(v.n) \o <<";">>
      [] v.t = "str" -> <<"S">> \o Digits(Len(v.s)) \o <<";">> \o v.s
      [] v.t = "map" -> <<"M">> \o Digits(Len(v.kids)) \o <<";">> \o PickleAll(v.kids)

Malformed == [ok |-> FALSE, val |-> IntV(0), rest |-> <<>>]

\* the decimal number at the head of b, up to its ";"
RECURSIVE ReadNumber(_, _)
ReadNumber(b, acc) ==
    IF b = <<>> THEN [ok |-> FALSE, n |-> 0, rest |-> <<>>]
    ELSE IF Head(b) = ";" THEN [ok |-> TRUE, n |-> acc, rest |-> Tail(b)]
    ELSE IF IsDigit(Head(b)) THEN ReadNumber(Tail(b), 10 * acc + DigitValue(Head(b)))
    ELSE [ok |-> FALSE, n |-> 0, rest |-> <<>>]

\* the value at the head of b and what follows it
RECURSIVE ReadValue(_)
RECURSIVE ReadValues(_, _)
ReadValues(b, k) ==
    IF k = 0 THEN [ok |-> TRUE, vals |-> <<>>, rest |-> b]
    ELSE LET h == ReadValue(b)
         IN  IF ~h.ok THEN [ok |-> FALSE, vals |-> <<>>, rest |-> <<>>]
             ELSE LET t == ReadValues(h.rest, k - 1)
                  IN  [ok |-> t.ok, vals |-> <<h.val>> \o t.vals, rest |-> t.rest]
ReadValue(b) ==
    IF b = <<>> \/ Len(b) < 2 \/ ~IsDigit(b[2]) THEN Malformed
    ELSE LET num == ReadNumber(Tail(b), 0)
         IN  IF ~num.ok THEN Malformed
             ELSE CASE Head(b) = "I" -> [ok |-> TRUE, val |-> IntV(num.n), rest |-> num.rest]
                    [] Head(b) = "S" ->
                         IF Len(num.rest) < num.n THEN Malformed
                         ELSE [ok |-> TRUE, val |-> StrV(SubSeq(num.rest, 1, num.n)),
                               rest |-> SubSeq(num.rest, num.n + 1, Len(num.rest))]
                    [] Head(b) = "M" ->
                         LET kids == ReadValues(num.rest, num.n)
                         IN  IF ~kids.ok THEN Malformed
                             ELSE [ok |-> TRUE, val |-> MapV(kids.vals), rest |-> kids.rest]
                    [] OTHER -> Malformed

\* the deserialization of a whole blob
Unpickle(b) ==
    LET r == ReadValue(b)
    IN  IF r.ok /\ r.rest = <<>> THEN r ELSE Malformed

\* f without the path p
Remove(f, p) == [q \in DOMAIN f \ {p} |-> f[q]]

\* the temporary local location of a report named nom
TempPath(nom) == <<"t", "/">> \o nom

\* uploader_report(objet_a_pickler, nom_fichier, dossier_id): serialize into a
\* temporary file, upload it, remove the temporary file whatever the outcome
uploader_report(st, files, objet_a_pickler, nom_fichier, dossier_id, fail, newId) ==
    LET tmp == TempPath(nom_fichier)
        u == uploader_fichier(st, (tmp :> Pickle(objet_a_pickler)) @@ files, tmp,
                              dossier_id, NoName, fail, newId)
    IN  [out |-> [u.out EXCEPT !.events = <<"dump">> \o @ \o <<"remove">>],
         store |-> u.store, fs |-> Remove(files, tmp)]

\* load_report(fichier_id): download into a temporary file, deserialize it,
\* remove the temporary file; fails when there is no well-formed blob to read
load_report(st, files, fichier_id, fail, chunks, failChunk) ==
    LET tmp == TempPath(<<"l">>)
        t == telecharger_fichier(st, files, fichier_id, tmp, None, fail, chunks, failChunk)
        blob == IF tmp \in DOMAIN t.fs THEN Unpickle(t.fs[tmp]) ELSE Malformed
    IN  IF t.out.result = TRUE /\ blob.ok
        THEN [out |-> Returned(blob.val, t.out.events \o <<"load", "remove">>, FALSE),
              fs |-> Remove(t.fs, tmp)]
        ELSE [out |-> [Raised(t.out.events) EXCEPT !.failed = t.out.failed],
              fs |-> Remove(t.fs, tmp)]

ReportValues ==
    { IntV(0), IntV(2000), StrV(<<"a", ";", "7">>),
      MapV(<<StrV(<<"k">>), IntV(12), StrV(<<>>), MapV(<<StrV(<<"n">>), StrV(<<"I">>)>>)>>) }
\* the folder of the reports, and an identifier the service never assigned
ReportFolders == {"B", "Z"}
ReportNames == {<<"s">>, <<"s", ".", "d", "o", "c", "x">>}

SaveReport ==
    /\ phase = "ready"
    /\ made < MaxNew
    /\ \E v \in ReportValues, nom \in ReportNames, dossier_id \in ReportFolders,
          fail \in {"none", "create"}, newId \in Ids \ IdsOf(store) :
         LET u == uploader_report(store, fs, v, nom, dossier_id, fail, newId)
             ok == u.store # store
         IN  /\ last' = Call("save_report", [value |-> v, nom_fichier |-> nom,
                                             dossier_id |-> dossier_id, fail |-> fail], u.out)
             /\ store' = u.store
             /\ fs' = u.fs
             /\ uploads' = IF ok
                           THEN uploads \cup {[id |-> u.out.result, name |-> nom,
                                               folder |-> dossier_id, value |-> v]}
                           ELSE uploads
             /\ made' = IF ok THEN made + 1 ELSE made
             /\ phase' = After(u.out)
    /\ UNCHANGED <<tokenFile, service>>

LoadReport ==
    /\ phase = "ready"
    /\ \E fichier_id \in Ids, fail \in {"none", "get", "chunk"},
          chunks \in 1..MaxChunks, failChunk \in 1..MaxChunks :
         LET l == load_report(store, fs, fichier_id, fail, chunks, failChunk)
         IN  /\ failChunk <= chunks
             /\ last' = Call("load_report", [fichier_id |-> fichier_id, fail |-> fail], l.out)
             /\ fs' = l.fs
             /\ phase' = After(l.out)
    /\ UNCHANGED <<store, tokenFile, service, uploads, made>>

NextReport == SaveReport \/ LoadReport \/ Continue

SpecReport == Init /\ [][NextReport]_vars

\* ================================================================== claims
ClientOps == {"list", "find", "download", "upload", "formats", "create_folder"}

\* the records of the store that a lookup of `nom` is about, in the service's order
FoldersNamed(st, nom) ==
    SelectSeq(st, LAMBDA r : r.name = nom /\ r.mimeType = FOLDER /\ ~r.trashed)

\* the non-trashed children of folder F, all pages together
ChildrenOf(st, F) == SelectSeq(st, LAMBDA r : r.parent = F /\ ~r.trashed)

\* whether the listing holds a record with this identifier and name
Lists(listing, id, name) ==
    \E i \in 1..Len(listing) : listing[i].id = id /\ listing[i].name = name

\* C1: an upload whose local path does not exist returns None, issues no remote
\* call (neither the folder lookup nor the create) whatever folder_id and
\* folder_name are, and leaves the remote store as it was.
C1_MissingPathNoRemoteCall ==
    [][ (last'.op = "upload" /\ last'.args.chemin \notin DOMAIN fs)
        => (last'.result = None /\ Calls(last') = <<>> /\ store' = store) ]_vars

\* C1 witness: an upload of a missing path with a folder name to resolve returned
C1_Witness ==
    /\ last.op = "upload"
    /\ last.args.chemin \notin DOMAIN fs
    /\ last.args.nom_dossier = d_name
    /\ last.args.dossier_id = None
    /\ last.result = None

\* C2: list(folder_id=F) returns only records of the store whose parent is F and
\* that are not trashed.
C2_ListOnlyChildrenNotTrashed ==
    (last.op = "list" /\ last.args.dossier_id # None) =>
        \A i \in 1..Len(last.result) :
            /\ last.result[i].id \in IdsOf(store)
            /\ RecordOf(store, last.result[i].id).parent = last.args.dossier_id
            /\ ~RecordOf(store, last.result[i].id).trashed

\* C2 witness: a listing of folder B, which has a trashed child, returned records
\* while the store holds records of other folders and of the root
C2_Witness ==
    /\ last.op = "list"
    /\ last.args.dossier_id = "B"
    /\ Len(last.result) >= 1
    /\ \E r \in Range(store) : r.parent = "B" /\ r.trashed
    /\ \E r \in Range(store) : r.parent = "A" /\ ~r.trashed

ExtOfLabel(label) ==
    IF \E i \in 1..Len(label) : label[i] = " "
    THEN SubSeq(label, 1, (CHOOSE i \in 1..Len(label) :
                             label[i] = " " /\ \A j \in 1..(i-1) : label[j] # " ") - 1)
    ELSE label
OfferedTypes(kind) == {f.mime : f \in formats_disponibles[kind]}
OfferedExtension(kind, mime) ==
    ExtOfLabel((CHOOSE f \in formats_disponibles[kind] : f.mime = mime).label)

\* C4: a download of an editable-document record, for an export type that
\* obtenir_formats_export offers for that kind (the caller's, or else the
\* default of the kind), writes to the caller's name (or else the record's)
\* ending with the extension of that type exactly once: appended when the name
\* does not end with it, not appended again when it does.
C4_ExportNameEndsWithExtension ==
    (/\ last.op = "download"
     /\ last.result = TRUE
     /\ RecordOf(store, last.args.fichier_id).mimeType \in DOMAIN google_docs_types) =>
        LET kind == RecordOf(store, last.args.fichier_id).mimeType
            type == IF last.args.format_export # None THEN last.args.format_export
                    ELSE google_docs_types[kind]
            nom  == IF last.args.nom_fichier_local # NoName THEN last.args.nom_fichier_local
                    ELSE RecordOf(store, last.args.fichier_id).name
        IN  type \in OfferedTypes(kind) =>
              LET ext == OfferedExtension(kind, type)
              IN  /\ EndsWith(Lower(last.args.written), Lower(ext))
                  /\ last.args.written =
                       IF EndsWith(Lower(nom), Lower(ext)) THEN nom ELSE nom \o ext

\* whether, in a sequence of events, the local file is opened only after every
\* remote call
OpenAfterRemote(events) ==
    \A i \in 1..Len(events), j \in 1..Len(events) :
        (events[i] = "open" /\ IsRemote(events[j])) => j < i

\* C5: in a download, on either branch, the local file is opened only after
\* every remote call of the download; when one of them fails the download
\* returns False, no local file was opened and the local file system is as it
\* was before.
C5_NoLocalFileOnRemoteFailure ==
    /\ [] ( last.op = "download" =>
              /\ OpenAfterRemote(last.events)
              /\ last.failed => (last.result = FALSE /\ "open" \notin Range(last.events)) )
    /\ [][ (last'.op = "download" /\ last'.failed) => fs' = fs ]_vars

\* C5 witness: a native-binary download whose second chunk failed, after a first
\* download had written a local file
C5_Witness ==
    /\ last.op = "download"
    /\ last.failed
    /\ last.events = <<"files.get", "next_chunk", "next_chunk">>
    /\ last.result = FALSE
    /\ DOMAIN fs # DOMAIN InitialFiles

\* what each operation returns when it fails
FailureIndicator(op) ==
    CASE op = "list" -> <<>>
      [] op = "find" -> None
      [] op = "download" -> FALSE
      [] op = "upload" -> None
      [] op = "formats" -> {}
      [] op = "create_folder" -> None

\* C6: when a remote call of list, find, download, upload, formats or
\* create_folder fails, no exception leaves the operation, it returns its failure
\* indicator, and the client is still there for the next call.
C6_RemoteFailureIsCaught ==
    (last.op \in ClientOps /\ last.failed) =>
        /\ ~last.raised
        /\ phase = "returned"
        /\ service.built
        /\ last.result = FailureIndicator(last.op)

\* C6 witness: an upload whose folder lookup failed returned
C6_Witness ==
    /\ last.op = "upload"
    /\ last.failed
    /\ last.args.fail = "lookup"
    /\ last.events = <<"files.list">>
    /\ phase = "returned"

\* C7: find_folder_by_name(name), its remote call not failing for a reason of
\* the service, returns None when no non-trashed folder has exactly that name and
\* otherwise the identifier of the first such record in the service's order; an
\* identifier it returns is always that of such a record.
C7_FindReturnsFirstMatch ==
    last.op = "find" =>
        LET matches == FoldersNamed(store, last.args.nom_dossier)
        IN  /\ last.args.fail = "none" =>
                  /\ matches = <<>> => last.result = None
                  /\ matches # <<>> => last.result = matches[1].id
            /\ last.result # None => \E r \in Range(matches) : r.id = last.result

\* the value a lookup returns when it succeeds with zero matches
NotFound == trouver_dossier_par_nom(<<>>, q_name, "none").result

\* C8: the value returned by a lookup whose remote call failed differs from the
\* value returned by a lookup that succeeded with zero matches.
C8_NotFoundDistinctFromError ==
    (last.op = "find" /\ last.failed) => last.result # NotFound

\* the position of an event, 0 when it did not happen
At(events, e) ==
    IF \E i \in 1..Len(events) : events[i] = e
    THEN CHOOSE i \in 1..Len(events) : events[i] = e
    ELSE 0

\* credentials absent, expired without a refresh token, or invalid without
\* being expired
NeedsFlow(file) ==
    \/ file.kind = "absent"
    \/ file.kind = "creds" /\ file.creds.expired /\ ~file.creds.refresh_token
    \/ file.kind = "creds" /\ ~Valid(file.creds) /\ ~file.creds.expired

\* C9: authenticate loads the credentials when the file exists; it starts the
\* interactive flow exactly when they are absent, expired without a refresh
\* token or invalid, and then writes the new credentials to the file before it
\* builds the session; with valid credentials it starts no flow and does not
\* write the file; when it returns the session is set and built from the
\* credentials then in the file.
C9_Authenticate ==
    last.op = "authenticate" =>
        LET file == last.args.file
            ev == last.events
        IN  /\ (file.kind # "absent") <=> (At(ev, "load") = 1)
            /\ file.kind # "corrupt" => (NeedsFlow(file) <=> At(ev, "flow") > 0)
            /\ (At(ev, "flow") > 0 /\ ~last.raised) =>
                   /\ At(ev, "flow") < At(ev, "dump")
                   /\ At(ev, "dump") < At(ev, "build")
                   /\ tokenFile.kind = "creds"
                   /\ tokenFile # file
            /\ (file.kind = "creds" /\ Valid(file.creds)) =>
                   /\ At(ev, "flow") = 0
                   /\ At(ev, "dump") = 0
                   /\ tokenFile = file
                   /\ ~last.raised
            /\ ~last.raised =>
                   /\ service.built
                   /\ At(ev, "build") = Len(ev)
                   /\ tokenFile.kind = "creds"
                   /\ service.creds = tokenFile.creds

\* C9 witness: expired credentials without a refresh token were loaded, the flow
\* ran and authenticate returned
C9_Witness ==
    /\ last.op = "authenticate"
    /\ last.args.file.kind = "creds"
    /\ last.args.file.creds.expired
    /\ ~last.args.file.creds.refresh_token
    /\ last.events = <<"load", "flow", "dump", "build">>
    /\ ~last.raised

====
